---- MODULE Spec2Model ----
(***************************************************************************)
(* The registry, the per-worker main loop and the WorkerThread operations  *)
(* of src/src/thread_pool.rs as a state machine.                           *)
(*                                                                         *)
(* Every critical section of the registry mutex is one atomic action.  The *)
(* notify_all that inject, terminate and start_working issue after they    *)
(* have released the mutex is a step of its own: in between, other threads *)
(* run while the waiters of work_available stay blocked.  The notify_all   *)
(* of wait_for_work is issued under the mutex and belongs to its action.   *)
(* Outside the mutex a step is one access to shared data: steal_until      *)
(* reads its latch, then calls pop_or_steal, and the job a pop or a steal  *)
(* returned is executed in a later step; other threads run in between.     *)
(*                                                                         *)
(* The deque crate, the latches and JobRef::execute are not part of the    *)
(* source file; they are modelled from their contracts.  A job is either a *)
(* "leaf" (its body increments the shared counter) or a "task" (its body   *)
(* increments the counter, pushes children onto the local deque and then   *)
(* optionally calls pop_spawned_jobs and steal_until).  std::sync::Once is  *)
(* modelled from its contract as well.                                     *)
(***************************************************************************)
EXTENDS Integers, Sequences, FiniteSets, TLC

MaxJobs == 3
MaxBatch == 2
PrimedJobs == 1
LiveJobs == 2
ClientJobs == 2
MaxCalls == 1
SweepJobs == 2
WideJobs == 1
QuietJobs == 3
MaxNotify == 2
MaxLate == 2

Workers == {0, 1, 2, 3}
PoolSizes == {1, 2}
SweepSizes == {1, 3, 4}
Jobs == 1 .. MaxJobs
NoJob == 0
External == Cardinality(Workers)
JobKinds == {"leaf", "task"}
Clients == {0, 1}
NoClient == -1
NoRegistry == 0
NoConfig == -1

VARIABLES
    terminate,        \* RegistryState.terminate
    threads_at_work,  \* RegistryState.threads_at_work
    injected_jobs,    \* RegistryState.injected_jobs, front first
    poisoned,         \* the registry mutex was poisoned by a panic under the lock
    aborted,          \* the process was aborted by a worker's AbortIfPanic guard
    pc,               \* position of each worker in main_loop
    was_active,       \* main_loop's local was_active
    spawn_count,      \* WorkerThread.spawn_count
    deque,            \* each worker's deque, top (steal end) first, bottom last
    tls,              \* WORKER_THREAD_STATE of each worker thread is non-null
    primed,           \* thread_infos[i].primed is set
    primeLog,         \* the threads that called thread_infos[i].primed.set()
    stack,            \* the job bodies a worker is inside of, outermost first
    mo,               \* the pop / pop_or_steal call a worker is inside of
    cur,              \* the job a worker's main loop holds
    njobs,            \* number of JobRefs created so far
    budget,           \* number of JobRefs the clients create in this run
    kind,             \* what the body of a job does
    parent,           \* the job whose body pushed a job (NoJob: injected)
    execLog,          \* the execute calls made on a job: <<thread, mode>>
    handed,           \* the workers wait_for_work returned Job(j) to
    late,             \* jobs passed to inject() after terminate was set
    lateLog,          \* where each inject() call after terminate panicked
    done,             \* the job's body has completed
    pending,          \* count latch of a task: itself plus unfinished children
    latch,            \* the SpinLatch a task waits for in steal_until
    counter,          \* the shared counter the job bodies increment
    wup,              \* wait_until_primed: -1 not called, i waiting for i, nthreads returned
    nthreads,         \* thread_infos.len(), the size of the pool
    once,             \* THE_REGISTRY_SET: "incomplete", "running" or "complete"
    the_registry,     \* THE_REGISTRY: NoRegistry (None) or the id of a registry
    registries,       \* the limit_value of every Registry::new call, in order
    client,           \* each external thread: its position and its locals
    owner,            \* the external thread whose in_worker_cold built a job
    opRuns,           \* the threads that ran the op of an in_worker job
    notifying         \* calls of inject and terminate between unlock and notify_all

regv == <<terminate, threads_at_work, injected_jobs, poisoned, aborted>>
newv == <<njobs, budget, kind, parent, late, lateLog>>
jobv == <<execLog, counter, done, pending, latch>>
startv == <<tls, primed, primeLog, wup, nthreads>>
callv == <<once, the_registry, registries, client, owner>>
cliv == <<once, the_registry, registries, client, owner, opRuns, notifying>>
workv == <<was_active, spawn_count, deque, stack, mo, cur, handed>>
vars == <<terminate, threads_at_work, injected_jobs, poisoned, aborted, pc,
          was_active, spawn_count, deque, tls, primed, primeLog, stack, mo, cur,
          njobs, budget, kind, parent, execLog, handed, late, lateLog, done,
          pending,
          latch, counter, wup, nthreads, once, the_registry, registries, client,
          owner, opRuns, notifying>>

Idle == [k |-> "idle", res |-> NoJob, vs |-> <<>>]
IdleClient == [at |-> "idle", inw |-> FALSE, cfg |-> NoConfig, job |-> NoJob,
               reg |-> NoRegistry, ret |-> <<>>, calls |-> 0]
Top(s) == s[Len(s)]
Range(s) == {s[i] : i \in 1 .. Len(s)}
WithTop(s, ph, c) == [s EXCEPT ![Len(s)] = [@ EXCEPT !.ph = ph, !.child = c]]

----------------------------------------------------------------------------
(* Registry and WorkerThread helpers                                       *)

\* main_loop: the stealer handles of all other workers of a pool of n, in
\* index order.
StealersOf(n, index) ==
    SelectSeq([i \in 1 .. n |-> i - 1], LAMBDA v : v # index)
Stealers(index) == StealersOf(nthreads, index)

\* mutant: the sweep visits hi only
HiOnly(stealers, start) == SubSeq(stealers, start + 1, Len(stealers))

\* pop_or_steal: hi.iter().chain(lo) after split_at(start).
RotatedOrder(stealers, start) ==
    SubSeq(stealers, start + 1, Len(stealers)) \o SubSeq(stealers, 1, start)

\* pop_or_steal after the local pop gave nothing: the orders in which the
\* sweep may visit the stealers, one for each start index; there is none
\* when stealers.is_empty(), and pop_or_steal returns None.
SweepOrders(stealers) ==
    IF stealers = <<>>
    THEN {}
    ELSE {RotatedOrder(stealers, start) : start \in 0 .. (Len(stealers) - 1)}

\* mutant: the notification is forgotten
NotifyNobody(p) == p

\* Condvar::notify_all: every worker waiting on work_available is woken.
NotifyAll(p) ==
    [w \in Workers |-> IF p[w] = "blocked" THEN "woken" ELSE p[w]]

\* mutant: the decrement does not depend on was_active
DecrementsAlways(taw, active) == taw - 1

\* wait_for_work: if was_active { state.threads_at_work -= 1 }; a result
\* below 0 stands for the underflow of the usize.
AfterDecrement(taw, active) == IF active THEN taw - 1 ELSE taw

\* mutant: the increment is forgotten
NotIncremented(taw) == taw

\* wait_for_work and start_working: state.threads_at_work += 1
AfterIncrement(taw) == taw + 1

\* mutant: the terminate flag is not looked at
TerminateIgnored(term, queue, taw) ==
    IF queue # <<>> THEN "Job"
    ELSE IF taw > 0 THEN "None"
    ELSE "Wait"

\* mutant: the spin-up test comes before the injected jobs
NoneBeforeJob(term, queue, taw) ==
    IF term THEN "Terminate"
    ELSE IF taw > 0 THEN "None"
    ELSE IF queue # <<>> THEN "Job"
    ELSE "Wait"

\* wait_for_work: one pass of the loop body under the lock.
WaitDecision(term, queue, taw) ==
    IF term THEN "Terminate"
    ELSE IF queue # <<>> THEN "Job"
    ELSE IF taw > 0 THEN "None"
    ELSE "Wait"

\* mutant: the front job is returned but left in the queue
FrontLeftInQueue(queue) == queue

\* wait_for_work: injected_jobs.pop_front()
AfterPopFront(queue) == Tail(queue)
FrontJob(queue) == Head(queue)

\* mutant: the assertion is missing
InjectAcceptsAlways(term) == TRUE

\* inject: assert!(!state.terminate)
InjectAccepts(term) == ~term

\* inject: state.injected_jobs.extend(injected_jobs)
Extended(queue, jobs) == queue \o jobs

\* mutant: the jobs are aborted but stay queued
NotDrained(queue) == queue

\* terminate: state.injected_jobs.drain(..) leaves the queue empty
Drained(queue) == <<>>

\* terminate: the jobs the drain hands to execute(Abort)
DrainedJobs(queue) == Range(queue)

\* mutant: push forgets to bump the spawn count
CountNotBumped(sc) == sc

\* push: self.spawn_count.set(self.spawn_count.get() + 1)
CountAfterPush(sc) == sc + 1

\* mutant: an empty deque does not reset the spawn count
CountNotReset(sc, res) == IF res # NoJob THEN sc - 1 ELSE sc

\* pop: spawn_count - 1 on Some, 0 on None
CountAfterPop(sc, res) == IF res # NoJob THEN sc - 1 ELSE 0

\* pop: the deque is touched only if spawn_count > 0
PopTouchesDeque(sc) == sc > 0

\* mutant: the loop stops one job early
StopsOneEarly(sc, start_count) == sc > start_count + 1

\* pop_spawned_jobs: while self.spawn_count.get() > start_count
KeepPopping(sc, start_count) == sc > start_count

\* deque::Worker::push / pop (bottom end) and deque::Stealer::steal (top end)
DequePush(d, j) == Append(d, j)
DequePopResult(d) == IF d = <<>> THEN NoJob ELSE d[Len(d)]
DequeAfterPop(d) == IF d = <<>> THEN d ELSE SubSeq(d, 1, Len(d) - 1)
StealOutcomes(d) == IF d = <<>> THEN {"Empty"} ELSE {"Data", "Abort"}
StolenJob(d) == Head(d)
DequeAfterSteal(d) == Tail(d)

\* A job's completion releases one count of its parent's latch.
PendingAfterDone(j) ==
    IF parent[j] = NoJob THEN pending
    ELSE [pending EXCEPT ![parent[j]] = @ - 1]
LatchAfterDone(j) ==
    IF parent[j] # NoJob /\ pending[parent[j]] - 1 = 0
    THEN [latch EXCEPT ![parent[j]] = TRUE]
    ELSE latch

NewFrame(j, n) == [job |-> j, N |-> n, ph |-> "body", child |-> NoJob]

InPsj(w) == stack[w] # <<>> /\ Top(stack[w]).ph = "psj"
\* steal_until: "su" is the test of the loop, "su_loop" the call of
\* pop_or_steal_and_execute, "su_exec" its job.execute
SuPhases == {"su", "su_loop", "su_exec"}
InSu(w) == stack[w] # <<>> /\ Top(stack[w]).ph \in SuPhases

----------------------------------------------------------------------------
(* Initial states                                                          *)

InitPool(n, b, started) ==
    /\ nthreads = n
    /\ terminate = FALSE
    /\ threads_at_work = 0
    /\ injected_jobs = <<>>
    /\ poisoned = FALSE
    /\ aborted = FALSE
    /\ pc = [w \in Workers |->
                IF w >= n THEN "absent" ELSE IF started THEN "wait" ELSE "start"]
    /\ was_active = [w \in Workers |-> FALSE]
    /\ spawn_count = [w \in Workers |-> 0]
    /\ deque = [w \in Workers |-> <<>>]
    /\ tls = [w \in Workers |-> started /\ w < n]
    /\ primed = [w \in Workers |-> started /\ w < n]
    /\ primeLog = [w \in Workers |-> IF started /\ w < n THEN <<w>> ELSE <<>>]
    /\ stack = [w \in Workers |-> <<>>]
    /\ mo = [w \in Workers |-> Idle]
    /\ cur = [w \in Workers |-> NoJob]
    /\ njobs = 0
    /\ budget = b
    /\ kind = [j \in Jobs |-> "none"]
    /\ parent = [j \in Jobs |-> NoJob]
    /\ execLog = [j \in Jobs |-> <<>>]
    /\ handed = [j \in Jobs |-> <<>>]
    /\ late = {}
    /\ lateLog = <<>>
    /\ done = [j \in Jobs |-> FALSE]
    /\ pending = [j \in Jobs |-> 0]
    /\ latch = [j \in Jobs |-> FALSE]
    /\ counter = 0
    /\ wup = -1
    /\ client = [c \in Clients |-> IdleClient]
    /\ owner = [j \in Jobs |-> NoClient]
    /\ opRuns = [j \in Jobs |-> <<>>]
    /\ notifying = 0

\* A registry of n workers that get_registry has installed.
InitWith(n, b, started) ==
    /\ InitPool(n, b, started)
    /\ once = "complete"
    /\ the_registry = 1
    /\ registries = <<n>>

\* The pool once its workers have reached their main loop.
Init == \E n \in PoolSizes : InitWith(n, MaxJobs, TRUE)

----------------------------------------------------------------------------
(* JobRef::execute(JobMode::Execute) on worker w; n is the spawn count the *)
(* body records on entry and st the stack of bodies the call is made from. *)
(* Sets execLog, counter, done, pending, latch and stack.                  *)

RunJobOn(w, j, n, st) ==
    /\ execLog' = [execLog EXCEPT ![j] = Append(@, <<w, "Execute">>)]
    /\ counter' = counter + 1
    /\ IF kind[j] = "leaf"
       THEN /\ done' = [done EXCEPT ![j] = TRUE]
            /\ pending' = PendingAfterDone(j)
            /\ latch' = LatchAfterDone(j)
            /\ stack' = [stack EXCEPT ![w] = st]
       ELSE /\ stack' = [stack EXCEPT ![w] = Append(st, NewFrame(j, n))]
            /\ pending' = [pending EXCEPT ![j] = 1]
            /\ UNCHANGED <<done, latch>>

RunJob(w, j, n) == RunJobOn(w, j, n, stack[w])

----------------------------------------------------------------------------
(* Clients of the registry                                                 *)

\* Registry::inject with a slice of new jobs whose kinds are ks (the slice
\* may be empty), up to the release of the mutex or to the panic.
Inject(ks) ==
    /\ njobs + Len(ks) <= budget
    /\ LET new == [i \in 1 .. Len(ks) |-> njobs + i] IN
       /\ njobs' = njobs + Len(ks)
       /\ kind' = [j \in Jobs |->
                     IF j \in Range(new) THEN ks[j - njobs] ELSE kind[j]]
       /\ IF poisoned
          THEN \* self.state.lock().unwrap() panics
               /\ Len(lateLog) < MaxLate
               /\ lateLog' = Append(lateLog, "lock")
               /\ late' = late \cup Range(new)
               /\ UNCHANGED <<injected_jobs, notifying, poisoned>>
          ELSE IF InjectAccepts(terminate)
          THEN /\ notifying < MaxNotify
               /\ injected_jobs' = Extended(injected_jobs, new)
               /\ notifying' = notifying + 1
               /\ UNCHANGED <<poisoned, late, lateLog>>
          ELSE \* the assertion panics while the guard is held
               /\ Len(lateLog) < MaxLate
               /\ poisoned' = TRUE
               /\ lateLog' = Append(lateLog, "assert")
               /\ late' = late \cup Range(new)
               /\ UNCHANGED <<injected_jobs, notifying>>
    /\ UNCHANGED <<terminate, threads_at_work, aborted, pc, was_active,
                   spawn_count, deque, stack, mo, cur, budget, parent, handed,
                   jobv, startv, callv, opRuns>>

\* Registry::terminate, up to the release of the mutex
Terminate ==
    /\ ~poisoned
    /\ notifying < MaxNotify
    /\ terminate' = TRUE
    /\ execLog' = [j \in Jobs |->
                     IF j \in DrainedJobs(injected_jobs)
                     THEN Append(execLog[j], <<External, "Abort">>)
                     ELSE execLog[j]]
    /\ injected_jobs' = Drained(injected_jobs)
    /\ notifying' = notifying + 1
    /\ UNCHANGED <<threads_at_work, poisoned, aborted, pc, was_active,
                   spawn_count, deque, stack, mo, cur, newv, handed, counter,
                   done, pending, latch, startv, callv, opRuns>>

\* inject and terminate: self.work_available.notify_all(), after the mutex
\* was released
Notify ==
    /\ notifying > 0
    /\ notifying' = notifying - 1
    /\ pc' = NotifyAll(pc)
    /\ UNCHANGED <<regv, workv, startv, newv, jobv, callv, opRuns>>

\* Registry::wait_until_primed, one info.primed.wait() at a time
WaitUntilPrimed ==
    /\ wup < nthreads
    /\ wup >= 0 => primed[wup]
    /\ wup' = wup + 1
    /\ UNCHANGED <<regv, pc, was_active, spawn_count, deque, tls, primed,
                   primeLog, nthreads, stack, mo, cur, newv, handed, jobv>>
    /\ UNCHANGED cliv

----------------------------------------------------------------------------
(* main_loop                                                               *)

\* mutant: the thread-local pointer is not installed
SetCurrentSkipped(w) ==
    /\ pc[w] = "start"
    /\ pc' = [pc EXCEPT ![w] = "prime"]
    /\ UNCHANGED <<regv, was_active, spawn_count, deque, tls, primed, primeLog,
                   wup, nthreads, stack, mo, cur, newv, handed, jobv>>
    /\ UNCHANGED cliv

\* worker_thread.set_current()
SetCurrent(w) ==
    /\ pc[w] = "start"
    /\ ~tls[w]
    /\ tls' = [tls EXCEPT ![w] = TRUE]
    /\ pc' = [pc EXCEPT ![w] = "prime"]
    /\ UNCHANGED <<regv, was_active, spawn_count, deque, primed, primeLog, wup,
                   nthreads, stack, mo, cur, newv, handed, jobv>>
    /\ UNCHANGED cliv

\* registry.thread_infos[index].primed.set()
SetPrimed(w) ==
    /\ pc[w] = "prime"
    /\ primed' = [primed EXCEPT ![w] = TRUE]
    /\ primeLog' = [primeLog EXCEPT ![w] = Append(@, w)]
    /\ pc' = [pc EXCEPT ![w] = "wait"]
    /\ was_active' = [was_active EXCEPT ![w] = FALSE]
    /\ UNCHANGED <<regv, spawn_count, deque, tls, wup, nthreads, stack, mo, cur,
                   newv, handed, jobv>>
    /\ UNCHANGED cliv

\* Registry::wait_for_work, from the lock (pc = "wait") or from a wakeup of
\* the condition variable (pc = "woken") to its return or its next wait;
\* a None return also runs main_loop's was_active = false.
WaitForWork(w) ==
    /\ pc[w] \in {"wait", "woken"}
    /\ ~poisoned
    /\ LET taw == IF pc[w] = "wait"
                  THEN AfterDecrement(threads_at_work, was_active[w])
                  ELSE threads_at_work
           d == WaitDecision(terminate, injected_jobs, taw)
       IN
       CASE d = "Terminate" ->
              /\ pc' = [pc EXCEPT ![w] = "done"]
              /\ threads_at_work' = taw
              /\ UNCHANGED <<injected_jobs, cur, handed, was_active>>
         [] d = "Job" ->
              /\ injected_jobs' = AfterPopFront(injected_jobs)
              /\ threads_at_work' = AfterIncrement(taw)
              /\ pc' = [NotifyAll(pc) EXCEPT ![w] = "got_job"]
              /\ cur' = [cur EXCEPT ![w] = FrontJob(injected_jobs)]
              /\ handed' = [handed EXCEPT ![FrontJob(injected_jobs)] = Append(@, w)]
              /\ UNCHANGED was_active
         [] d = "None" ->
              /\ pc' = [pc EXCEPT ![w] = "drain"]
              /\ threads_at_work' = taw
              /\ was_active' = [was_active EXCEPT ![w] = FALSE]
              /\ UNCHANGED <<injected_jobs, cur, handed>>
         [] d = "Wait" ->
              /\ pc' = [pc EXCEPT ![w] = "blocked"]
              /\ threads_at_work' = taw
              /\ UNCHANGED <<injected_jobs, cur, handed, was_active>>
    /\ UNCHANGED <<terminate, poisoned, aborted, spawn_count, deque, stack, mo,
                   newv, jobv, startv>>
    /\ UNCHANGED cliv

\* Condvar::wait may return without a notification.
SpuriousWake(w) ==
    /\ pc[w] = "blocked"
    /\ pc' = [pc EXCEPT ![w] = "woken"]
    /\ UNCHANGED <<regv, was_active, spawn_count, deque, stack, mo, cur, newv,
                   handed, jobv, startv>>
    /\ UNCHANGED cliv

\* lock().unwrap() and wait(..).unwrap() panic on a poisoned mutex; the
\* worker's AbortIfPanic guard then aborts the process.
PoisonAbort(w) ==
    /\ pc[w] \in {"wait", "woken", "sw"}
    /\ poisoned
    /\ aborted' = TRUE
    /\ UNCHANGED <<terminate, threads_at_work, injected_jobs, poisoned, pc,
                   was_active, spawn_count, deque, stack, mo, cur, newv, handed,
                   jobv, startv>>
    /\ UNCHANGED cliv

\* mutant: in_worker never takes the direct branch
AlwaysCold(is_worker) == "cold"

\* in_worker: if !owner_thread.is_null() { op(..) } else { in_worker_cold(op) }
InWorkerPath(is_worker) == IF is_worker THEN "direct" ELSE "cold"

\* Work::Job(injected_job) => injected_job.execute(Execute); was_active = true.
\* The body of a job built by in_worker_cold is in_worker(op), called on the
\* worker: op runs directly if the worker's thread-local pointer is set.  The
\* other branch (in_worker_cold on a worker thread) is not followed further.
ExecInjected(w) ==
    /\ pc[w] = "got_job"
    /\ cur' = [cur EXCEPT ![w] = NoJob]
    /\ IF owner[cur[w]] # NoClient /\ InWorkerPath(tls[w]) = "cold"
       THEN /\ execLog' = [execLog EXCEPT ![cur[w]] = Append(@, <<w, "Execute">>)]
            /\ pc' = [pc EXCEPT ![w] = "cold"]
            /\ UNCHANGED <<counter, done, pending, latch, stack, was_active,
                           opRuns>>
       ELSE /\ RunJob(w, cur[w], spawn_count[w])
            /\ opRuns' = IF owner[cur[w]] # NoClient
                         THEN [opRuns EXCEPT ![cur[w]] = Append(@, w)]
                         ELSE opRuns
            /\ IF kind[cur[w]] = "leaf"
               THEN /\ pc' = [pc EXCEPT ![w] = "wait"]
                    /\ was_active' = [was_active EXCEPT ![w] = TRUE]
               ELSE /\ pc' = [pc EXCEPT ![w] = "exec_inj"]
                    /\ UNCHANGED was_active
    /\ UNCHANGED <<regv, spawn_count, deque, mo, newv, handed, startv, callv,
                   notifying>>

\* Registry::start_working, up to the release of the mutex
StartWorking(w) ==
    /\ pc[w] = "sw"
    /\ ~poisoned
    /\ threads_at_work' = AfterIncrement(threads_at_work)
    /\ pc' = [pc EXCEPT ![w] = "sw_notify"]
    /\ UNCHANGED <<terminate, injected_jobs, poisoned, aborted, was_active,
                   spawn_count, deque, stack, mo, cur, newv, handed, jobv,
                   startv>>
    /\ UNCHANGED cliv

\* Registry::start_working: self.work_available.notify_all(), and the return
StartWorkingNotify(w) ==
    /\ pc[w] = "sw_notify"
    /\ pc' = [NotifyAll(pc) EXCEPT ![w] = "run"]
    /\ UNCHANGED <<regv, workv, startv, newv, jobv, cliv>>

\* the drain loop's job.execute(Execute); was_active = true
ExecDrained(w) ==
    /\ pc[w] = "run"
    /\ RunJob(w, cur[w], spawn_count[w])
    /\ cur' = [cur EXCEPT ![w] = NoJob]
    /\ IF kind[cur[w]] = "leaf"
       THEN /\ pc' = [pc EXCEPT ![w] = "drain"]
            /\ was_active' = [was_active EXCEPT ![w] = TRUE]
       ELSE /\ pc' = [pc EXCEPT ![w] = "exec_drain"]
            /\ UNCHANGED was_active
    /\ UNCHANGED <<regv, spawn_count, deque, mo, newv, handed, startv>>
    /\ UNCHANGED cliv

----------------------------------------------------------------------------
(* WorkerThread::pop and WorkerThread::pop_or_steal                        *)

\* pop_or_steal returns Some(j), or None when j = NoJob, to its caller: the
\* drain loop of main_loop, or pop_or_steal_and_execute in steal_until, which
\* holds the job until its job.execute or, on None, yields and goes back to
\* the test of the loop.  Sets mo, pc, cur, stack and the job variables.
PopOrStealReturns(w, j) ==
    /\ mo' = [mo EXCEPT ![w] = Idle]
    /\ UNCHANGED jobv
    /\ IF InSu(w)
       THEN /\ stack' = [stack EXCEPT ![w] =
                           IF j # NoJob THEN WithTop(@, "su_exec", j)
                                        ELSE WithTop(@, "su", NoJob)]
            /\ UNCHANGED <<pc, cur>>
       ELSE /\ pc' = [pc EXCEPT ![w] = IF j # NoJob THEN "sw" ELSE "wait"]
            /\ cur' = [cur EXCEPT ![w] = j]
            /\ UNCHANGED stack

\* pop_or_steal after the local pop returned None: no stealers, or the
\* choice of the start index.  Sets the variables of PopOrStealReturns.
StartSweep(w) ==
    IF SweepOrders(Stealers(w)) = {}
    THEN PopOrStealReturns(w, NoJob)
    ELSE /\ \E vs \in SweepOrders(Stealers(w)) :
              mo' = [mo EXCEPT ![w] = [k |-> "sweep", res |-> NoJob,
                                       vs |-> vs]]
         /\ UNCHANGED <<pc, cur, jobv, stack>>

WantsPop(w) ==
    /\ InPsj(w)
    /\ KeepPopping(spawn_count[w], Top(stack[w]).N)

\* mutant: steal_until does not look at the latch
SuLoopsNever(probe) == FALSE

\* steal_until: while !latch.probe()
SuLoops(probe) == ~probe

\* the caller is about to call pop_or_steal: the drain loop of main_loop, or
\* steal_until after its latch.probe() returned false
WantsPopOrSteal(w) ==
    \/ pc[w] = "drain"
    \/ stack[w] # <<>> /\ Top(stack[w]).ph = "su_loop"

\* WorkerThread::pop up to and including self.worker.pop()
PopBegin(w) ==
    /\ mo[w].k = "idle"
    /\ WantsPop(w) \/ WantsPopOrSteal(w)
    /\ IF PopTouchesDeque(spawn_count[w])
       THEN /\ mo' = [mo EXCEPT ![w] = [k |-> "popped",
                                        res |-> DequePopResult(deque[w]),
                                        vs |-> <<>>]]
            /\ deque' = [deque EXCEPT ![w] = DequeAfterPop(@)]
            /\ UNCHANGED <<pc, cur, jobv, stack>>
       ELSE /\ StartSweep(w)
            /\ UNCHANGED deque
    /\ UNCHANGED <<regv, was_active, spawn_count, newv, handed, startv>>
    /\ UNCHANGED cliv

\* WorkerThread::pop from the spawn_count update to the return, and what
\* the caller does with the result: pop_spawned_jobs holds the job until its
\* job_ref.execute or leaves its loop, pop_or_steal returns it or sweeps.
PopEnd(w) ==
    /\ mo[w].k = "popped"
    /\ LET res == mo[w].res
           sc == CountAfterPop(spawn_count[w], res)
       IN
       /\ spawn_count' = [spawn_count EXCEPT ![w] = sc]
       /\ IF InPsj(w)
          THEN /\ mo' = [mo EXCEPT ![w] = Idle]
               /\ stack' = [stack EXCEPT ![w] =
                              IF res # NoJob THEN WithTop(@, "psj_exec", res)
                                             ELSE WithTop(@, "tail", NoJob)]
               /\ UNCHANGED <<pc, cur, jobv>>
          ELSE IF res # NoJob
               THEN PopOrStealReturns(w, res)
               ELSE StartSweep(w)
    /\ UNCHANGED <<regv, was_active, deque, newv, handed, startv>>
    /\ UNCHANGED cliv

\* one stealer.steal() of the sweep in pop_or_steal
StealStep(w) ==
    /\ mo[w].k = "sweep"
    /\ LET v == Head(mo[w].vs) IN
       \E o \in StealOutcomes(deque[v]) :
          IF o = "Data"
          THEN /\ deque' = [deque EXCEPT ![v] = DequeAfterSteal(@)]
               /\ PopOrStealReturns(w, StolenJob(deque[v]))
          ELSE /\ UNCHANGED deque
               /\ IF Len(mo[w].vs) = 1
                  THEN PopOrStealReturns(w, NoJob)
                  ELSE /\ mo' = [mo EXCEPT ![w].vs = Tail(@)]
                       /\ UNCHANGED <<pc, cur, jobv, stack>>
    /\ UNCHANGED <<regv, was_active, spawn_count, newv, handed, startv>>
    /\ UNCHANGED cliv

----------------------------------------------------------------------------
(* Job bodies running on a worker                                          *)

InBody(w, phases) ==
    /\ stack[w] # <<>>
    /\ mo[w].k = "idle"
    /\ Top(stack[w]).ph \in phases

\* WorkerThread::push, first half: the spawn count is bumped
PushBegin(w, kd) ==
    /\ InBody(w, {"body"})
    /\ njobs < budget
    /\ LET c == njobs + 1
           p == Top(stack[w]).job
       IN
       /\ njobs' = c
       /\ kind' = [kind EXCEPT ![c] = kd]
       /\ parent' = [parent EXCEPT ![c] = p]
       /\ pending' = [pending EXCEPT ![p] = @ + 1]
       /\ spawn_count' = [spawn_count EXCEPT ![w] = CountAfterPush(@)]
       /\ stack' = [stack EXCEPT ![w] = WithTop(@, "push2", c)]
    /\ UNCHANGED <<regv, pc, was_active, deque, mo, cur, budget, late, lateLog,
                   handed,
                   execLog, counter, done, latch, startv>>
    /\ UNCHANGED cliv

\* WorkerThread::push, second half: self.worker.push(job)
PushEnd(w) ==
    /\ InBody(w, {"push2"})
    /\ deque' = [deque EXCEPT ![w] = DequePush(@, Top(stack[w]).child)]
    /\ stack' = [stack EXCEPT ![w] = WithTop(@, "body", NoJob)]
    /\ UNCHANGED <<regv, pc, was_active, spawn_count, mo, cur, newv, handed,
                   jobv, startv>>
    /\ UNCHANGED cliv

\* the body calls pop_spawned_jobs(N) with the count it recorded on entry
CallPopSpawned(w) ==
    /\ InBody(w, {"body"})
    /\ stack' = [stack EXCEPT ![w] = WithTop(@, "psj", NoJob)]
    /\ UNCHANGED <<regv, pc, was_active, spawn_count, deque, mo, cur, newv,
                   handed, jobv, startv>>
    /\ UNCHANGED cliv

\* pop_spawned_jobs returns because spawn_count <= start_count
PopSpawnedExit(w) ==
    /\ InBody(w, {"psj"})
    /\ ~KeepPopping(spawn_count[w], Top(stack[w]).N)
    /\ stack' = [stack EXCEPT ![w] = WithTop(@, "tail", NoJob)]
    /\ UNCHANGED <<regv, pc, was_active, spawn_count, deque, mo, cur, newv,
                   handed, jobv, startv>>
    /\ UNCHANGED cliv

\* job_ref.execute(JobMode::Execute) of pop_spawned_jobs and job.execute of
\* pop_or_steal_and_execute, on the job the pop or steal returned
ExecuteJob(w) ==
    /\ InBody(w, {"psj_exec", "su_exec"})
    /\ LET f == Top(stack[w])
           back == IF f.ph = "psj_exec" THEN "psj" ELSE "su"
       IN RunJobOn(w, f.child, spawn_count[w], WithTop(stack[w], back, NoJob))
    /\ UNCHANGED <<regv, pc, was_active, spawn_count, deque, mo, cur, newv,
                   handed, startv>>
    /\ UNCHANGED cliv

\* the body releases its own count of its latch and calls steal_until
CallStealUntil(w) ==
    /\ InBody(w, {"body", "tail"})
    /\ LET p == Top(stack[w]).job IN
       /\ pending' = [pending EXCEPT ![p] = @ - 1]
       /\ latch' = [latch EXCEPT ![p] = @ \/ pending[p] - 1 = 0]
    /\ stack' = [stack EXCEPT ![w] = WithTop(@, "su", NoJob)]
    /\ UNCHANGED <<regv, pc, was_active, spawn_count, deque, mo, cur, newv,
                   handed, execLog, counter, done, startv>>
    /\ UNCHANGED cliv

\* steal_until: latch.probe() returned false, the loop body is entered
SuProbe(w) ==
    /\ InBody(w, {"su"})
    /\ SuLoops(latch[Top(stack[w]).job])
    /\ stack' = [stack EXCEPT ![w] = WithTop(@, "su_loop", NoJob)]
    /\ UNCHANGED <<regv, pc, was_active, spawn_count, deque, mo, cur, newv,
                   handed, jobv, startv>>
    /\ UNCHANGED cliv

\* the body returns (after steal_until: once latch.probe() is true); at the
\* bottom of the stack main_loop sets was_active = true and goes on.
BodyReturn(w) ==
    /\ \/ InBody(w, {"body", "tail"})
       \/ InBody(w, {"su"}) /\ ~SuLoops(latch[Top(stack[w]).job])
    /\ LET j == Top(stack[w]).job IN
       /\ done' = [done EXCEPT ![j] = TRUE]
       /\ pending' = PendingAfterDone(j)
       /\ latch' = LatchAfterDone(j)
    /\ stack' = [stack EXCEPT ![w] = SubSeq(@, 1, Len(@) - 1)]
    /\ IF Len(stack[w]) = 1
       THEN /\ was_active' = [was_active EXCEPT ![w] = TRUE]
            /\ pc' = [pc EXCEPT ![w] =
                        IF pc[w] = "exec_inj" THEN "wait" ELSE "drain"]
       ELSE UNCHANGED <<pc, was_active>>
    /\ UNCHANGED <<regv, spawn_count, deque, mo, cur, newv, handed, execLog,
                   counter, startv>>
    /\ UNCHANGED cliv

----------------------------------------------------------------------------
(* External threads: get_registry, get_registry_with_config and in_worker  *)

\* mutant: a caller that finds the initializer running does not wait for it
OnceNeverBlocks(o) == IF o = "incomplete" THEN "run" ELSE "skip"

\* Once::call_once: the first caller runs the closure, a caller that arrives
\* while it runs blocks until it has completed, a later caller skips it.
OnceDecision(o) ==
    IF o = "incomplete" THEN "run"
    ELSE IF o = "running" THEN "block"
    ELSE "skip"

\* Registry::new: the pool size, from the configuration or from num_cpus
LimitValue(cfg, cpus) == IF cfg # NoConfig THEN cfg ELSE cpus

\* entry of get_registry (cfg = NoConfig: Configuration::new()), of
\* get_registry_with_config(cfg), or of get_registry inside in_worker_cold
EnterCallOnce(c, cfg, inw, j) ==
    client' = [client EXCEPT ![c] =
                  [@ EXCEPT !.at = "call_once", !.cfg = cfg, !.inw = inw,
                            !.job = j, !.reg = NoRegistry,
                            !.calls = @ + 1]]

GetRegistry(c) ==
    /\ client[c].at = "idle"
    /\ client[c].calls < MaxCalls
    /\ EnterCallOnce(c, NoConfig, FALSE, NoJob)
    /\ UNCHANGED <<regv, pc, workv, startv, newv, jobv, once, the_registry,
                   registries, owner, opRuns,
                   notifying>>

GetRegistryWithConfig(c, cfg) ==
    /\ client[c].at = "idle"
    /\ client[c].calls < MaxCalls
    /\ EnterCallOnce(c, cfg, FALSE, NoJob)
    /\ UNCHANGED <<regv, pc, workv, startv, newv, jobv, once, the_registry,
                   registries, owner, opRuns,
                   notifying>>

\* in_worker(op) on an external thread, whose thread-local pointer is null:
\* in_worker_cold builds the StackJob and calls get_registry(); kd is what
\* op does.
InWorker(c, kd) ==
    /\ client[c].at = "idle"
    /\ client[c].calls < MaxCalls
    /\ njobs < budget
    /\ InWorkerPath(FALSE) = "cold"
    /\ njobs' = njobs + 1
    /\ kind' = [kind EXCEPT ![njobs + 1] = kd]
    /\ owner' = [owner EXCEPT ![njobs + 1] = c]
    /\ EnterCallOnce(c, NoConfig, TRUE, njobs + 1)
    /\ UNCHANGED <<regv, pc, workv, startv, budget, parent, late, lateLog, jobv, once,
                   the_registry, registries, opRuns,
                   notifying>>

\* THE_REGISTRY_SET.call_once(..): up to the start of the closure, or to the
\* return without running it
CallOnce(c) ==
    /\ client[c].at = "call_once"
    /\ OnceDecision(once) # "block"
    /\ IF OnceDecision(once) = "run"
       THEN /\ once' = "running"
            /\ client' = [client EXCEPT ![c].at = "new"]
       ELSE /\ client' = [client EXCEPT ![c].at = "unwrap"]
            /\ UNCHANGED once
    /\ UNCHANGED <<regv, pc, workv, startv, newv, jobv, the_registry,
                   registries, owner, opRuns,
                   notifying>>

\* init_registry: leak(Registry::new(config.num_threads())), which spawns
\* the worker threads
RegistryNew(c) ==
    /\ client[c].at = "new"
    /\ \E cpus \in PoolSizes :
          LET limit_value == LimitValue(client[c].cfg, cpus) IN
          /\ registries' = Append(registries, limit_value)
          /\ nthreads' = limit_value
          /\ pc' = [w \in Workers |->
                       IF w < limit_value THEN "start" ELSE "absent"]
    /\ client' = [client EXCEPT ![c] =
                      [@ EXCEPT !.at = "store", !.reg = Len(registries) + 1]]
    /\ UNCHANGED <<regv, workv, tls, primed, primeLog, wup, newv, jobv, once,
                   the_registry, owner, opRuns,
                   notifying>>

\* init_registry: THE_REGISTRY = Some(registry); the closure returns and the
\* Once is complete
StoreRegistry(c) ==
    /\ client[c].at = "store"
    /\ the_registry' = client[c].reg
    /\ once' = "complete"
    /\ client' = [client EXCEPT ![c].at = "unwrap"]
    /\ UNCHANGED <<regv, pc, workv, startv, newv, jobv, registries, owner,
                   opRuns,
                   notifying>>

\* THE_REGISTRY.unwrap(): the call returns the registry, or panics on None
Unwrap(c) ==
    /\ client[c].at = "unwrap"
    /\ client' = [client EXCEPT ![c] =
                      IF the_registry = NoRegistry
                      THEN [@ EXCEPT !.at = "panicked"]
                      ELSE [@ EXCEPT !.ret = Append(@, the_registry),
                                     !.at = IF client[c].inw THEN "inject"
                                            ELSE "idle"]]
    /\ UNCHANGED <<regv, pc, workv, startv, newv, jobv, once, the_registry,
                   registries, owner, opRuns,
                   notifying>>

\* in_worker_cold: get_registry().inject(&[job.as_job_ref()]), up to the
\* release of the mutex, or to the panic of lock().unwrap() on a poisoned
\* mutex or of the assertion, either of which unwinds the caller
ClientInject(c) ==
    /\ client[c].at = "inject"
    /\ IF poisoned
       THEN /\ late' = late \cup {client[c].job}
            /\ lateLog' = Append(lateLog, "lock")
            /\ client' = [client EXCEPT ![c].at = "panicked"]
            /\ UNCHANGED <<injected_jobs, poisoned>>
       ELSE IF InjectAccepts(terminate)
       THEN /\ injected_jobs' = Extended(injected_jobs, <<client[c].job>>)
            /\ client' = [client EXCEPT ![c].at = "notify"]
            /\ UNCHANGED <<poisoned, late, lateLog>>
       ELSE /\ poisoned' = TRUE
            /\ late' = late \cup {client[c].job}
            /\ lateLog' = Append(lateLog, "assert")
            /\ client' = [client EXCEPT ![c].at = "panicked"]
            /\ UNCHANGED injected_jobs
    /\ UNCHANGED <<terminate, threads_at_work, aborted, pc, workv, startv,
                   njobs, budget, kind, parent, jobv, once, the_registry,
                   registries, owner, opRuns, notifying>>

\* inject: self.work_available.notify_all(), and the return to in_worker_cold
ClientNotify(c) ==
    /\ client[c].at = "notify"
    /\ pc' = NotifyAll(pc)
    /\ client' = [client EXCEPT ![c].at = "latch"]
    /\ UNCHANGED <<regv, workv, startv, newv, jobv, once, the_registry,
                   registries, owner, opRuns, notifying>>

\* in_worker_cold: job.latch.wait() returns once the job has set its latch,
\* which it does when its closure has returned
LatchWait(c) ==
    /\ client[c].at = "latch"
    /\ done[client[c].job]
    /\ client' = [client EXCEPT ![c] =
                      [@ EXCEPT !.at = "idle", !.inw = FALSE, !.job = NoJob]]
    /\ UNCHANGED <<regv, pc, workv, startv, newv, jobv, once, the_registry,
                   registries, owner, opRuns,
                   notifying>>

----------------------------------------------------------------------------
(* Specifications                                                          *)

\* the slices a client passes to inject: of any length, the empty one included
Batches == UNION {[1 .. n -> JobKinds] : n \in 0 .. MaxBatch}

StartStep(w) ==
    \/ SetCurrent(w)
    \/ SetPrimed(w)

WorkerStep(w) ==
    \/ WaitForWork(w)
    \/ ExecInjected(w)
    \/ StartWorking(w)
    \/ StartWorkingNotify(w)
    \/ ExecDrained(w)
    \/ PopBegin(w)
    \/ PopEnd(w)
    \/ StealStep(w)
    \/ \E kd \in JobKinds : PushBegin(w, kd)
    \/ PushEnd(w)
    \/ CallPopSpawned(w)
    \/ PopSpawnedExit(w)
    \/ ExecuteJob(w)
    \/ CallStealUntil(w)
    \/ SuProbe(w)
    \/ BodyReturn(w)

Next ==
    /\ ~aborted
    /\ \/ \E ks \in Batches : Inject(ks)
       \/ Terminate
       \/ Notify
       \/ \E w \in Workers : WorkerStep(w)
       \/ \E w \in Workers : SpuriousWake(w)
       \/ \E w \in Workers : PoisonAbort(w)

Spec == Init /\ [][Next]_vars

\* The same pool with a client that calls wait_until_primed.
InitPrimed == \E n \in PoolSizes : InitWith(n, PrimedJobs, FALSE)

NextPrimed ==
    \/ Next
    \/ ~aborted /\ \E w \in Workers : StartStep(w)
    \/ ~aborted /\ WaitUntilPrimed

SpecPrimed == InitPrimed /\ [][NextPrimed]_vars

\* The pool with clients that keep the contract of inject (no call after
\* terminate), under fair scheduling of the worker threads.
InitLive == \E n \in PoolSizes : InitWith(n, LiveJobs, TRUE)

NextLive ==
    \/ \E ks \in Batches : ~terminate /\ Inject(ks)
    \/ Terminate
    \/ Notify
    \/ \E w \in Workers : WorkerStep(w)
    \/ \E w \in Workers : SpuriousWake(w)

LiveSpec ==
    /\ InitLive
    /\ [][NextLive]_vars
    /\ WF_vars(Notify)
    /\ \A w \in Workers : WF_vars(WorkerStep(w))

\* A pool of one worker, which has no siblings, a pool of three, in which
\* jobs are pushed and stolen, and a pool of four, in which a sweep of
\* pop_or_steal has three victims and its rotations differ from the other
\* orders; terminate is not called.  Every worker of the pool runs.  The
\* clients of the pool of four create WideJobs jobs, those of the smaller
\* pools SweepJobs.
InitSweep ==
    \E n \in SweepSizes :
        InitWith(n, IF n = Cardinality(Workers) THEN WideJobs ELSE SweepJobs,
                 TRUE)

NextSweep ==
    \/ \E ks \in Batches : Inject(ks)
    \/ Notify
    \/ \E w \in Workers : WorkerStep(w)
    \/ \E w \in Workers : SpuriousWake(w)

SweepSpec == InitSweep /\ [][NextSweep]_vars

\* The pool on which terminate is never called, under fair scheduling of
\* the worker threads.
InitQuiet == \E n \in PoolSizes : InitWith(n, QuietJobs, TRUE)

NextQuiet ==
    \/ \E ks \in Batches : Inject(ks)
    \/ Notify
    \/ \E w \in Workers : WorkerStep(w)
    \/ \E w \in Workers : SpuriousWake(w)

QuietSpec ==
    /\ InitQuiet
    /\ [][NextQuiet]_vars
    /\ WF_vars(Notify)
    /\ \A w \in Workers : WF_vars(WorkerStep(w))

\* A process in which no registry exists yet, with external threads that
\* call get_registry, get_registry_with_config and in_worker, and never
\* terminate; all threads are scheduled fairly.
InitClient ==
    /\ InitPool(0, ClientJobs, FALSE)
    /\ once = "incomplete"
    /\ the_registry = NoRegistry
    /\ registries = <<>>

ClientStep(c) ==
    \/ GetRegistry(c)
    \/ \E cfg \in PoolSizes : GetRegistryWithConfig(c, cfg)
    \/ \E kd \in JobKinds : InWorker(c, kd)
    \/ CallOnce(c)
    \/ RegistryNew(c)
    \/ StoreRegistry(c)
    \/ Unwrap(c)
    \/ ClientInject(c)
    \/ ClientNotify(c)
    \/ LatchWait(c)

NextClient ==
    \/ \E c \in Clients : ClientStep(c)
    \/ \E w \in Workers : StartStep(w)
    \/ \E w \in Workers : WorkerStep(w)
    \/ \E w \in Workers : SpuriousWake(w)

ClientSpec ==
    /\ InitClient
    /\ [][NextClient]_vars
    /\ \A c \in Clients : WF_vars(ClientStep(c))
    /\ \A w \in Workers : WF_vars(StartStep(w) \/ WorkerStep(w))

----------------------------------------------------------------------------
(* Properties                                                              *)

Created(j) == j <= njobs
WasInjected(j) == Created(j) /\ parent[j] = NoJob /\ j \notin late
Children(p) == {c \in Jobs : Created(c) /\ parent[c] = p}
Modes(j) == {execLog[j][i][2] : i \in 1 .. Len(execLog[j])}
Holders(j) == {w \in Workers : pc[w] = "got_job" /\ cur[w] = j}
\* worker w holds job j between the pop or steal that returned it and its
\* execute call
Holds(w, j) ==
    \/ cur[w] = j
    \/ /\ stack[w] # <<>>
       /\ Top(stack[w]).ph \in {"psj_exec", "su_exec"}
       /\ Top(stack[w]).child = j
Positions(j) == {i \in 1 .. Len(injected_jobs) : injected_jobs[i] = j}
AllExited == \A w \in Workers : w < nthreads => pc[w] = "done"

\* C1: while terminate is not set, every injected JobRef is queued at most
\* once, is handed out by wait_for_work to at most one worker and at most one
\* time, and is executed with mode Execute (never Abort) once, by the worker
\* it was handed to, right after the handout.
C1_ExactlyOnceInjected ==
    ~terminate =>
        \A j \in Jobs : WasInjected(j) =>
            /\ Cardinality(Positions(j)) <= 1
            /\ Len(handed[j]) <= 1
            /\ Len(execLog[j]) <= 1
            /\ Modes(j) \subseteq {"Execute"}
            /\ (Positions(j) # {}) <=> (handed[j] = <<>>)
            /\ execLog[j] # <<>> =>
                   /\ handed[j] # <<>>
                   /\ execLog[j][1][1] = handed[j][1]
                   /\ execLog[j][1][1] \in Workers
            /\ (handed[j] # <<>> /\ execLog[j] = <<>>) =>
                   Holders(j) = {handed[j][1]}
            /\ execLog[j] # <<>> => Holders(j) = {}

\* C1 witness: two injected jobs were executed by two different workers.
C1_Witness ==
    /\ ~terminate
    /\ \E i, j \in Jobs :
          /\ i # j /\ WasInjected(i) /\ WasInjected(j)
          /\ execLog[i] = << <<0, "Execute">> >>
          /\ execLog[j] = << <<1, "Execute">> >>

AbortedOnce(j) == execLog[j] = << <<External, "Abort">> >>

\* C3: the step that sets terminate executes every JobRef still in
\* injected_jobs exactly once with mode Abort on the terminating thread and
\* leaves injected_jobs empty; an aborted job is never executed with mode
\* Execute; and once the flag is set no wait_for_work returns Job(j).
C3_TerminateStep ==
    /\ (~terminate /\ terminate') =>
          /\ \A j \in Range(injected_jobs) : execLog'[j] = << <<External, "Abort">> >>
          /\ injected_jobs' = <<>>
    /\ terminate => handed' = handed

C3_AbortOnTerminate ==
    /\ [](\A j \in Jobs : "Abort" \in Modes(j) => AbortedOnce(j))
    /\ [](terminate => injected_jobs = <<>>)
    /\ [][C3_TerminateStep]_vars

\* C3 witness: terminate aborted a queued job while another injected job,
\* claimed before, was executed by a worker.
C3_Witness ==
    /\ terminate
    /\ \E i, j \in Jobs :
          /\ AbortedOnce(i)
          /\ WasInjected(j) /\ Modes(j) = {"Execute"}

\* C4: execute is called at most once on every JobRef, and when all workers
\* have left their main loop it has been called exactly once on every JobRef
\* that was injected or pushed.
C4_ExactlyOncePerJobRef ==
    /\ \A j \in Jobs : Len(execLog[j]) <= 1
    /\ AllExited =>
          \A j \in Jobs : (Created(j) /\ j \notin late) => Len(execLog[j]) = 1

\* C5 as claimed, the part about the assertion: every inject() call made
\* after terminate was set fails its assertion.
C5_LateCallsFailAssertion ==
    \A i \in 1 .. Len(lateLog) : lateLog[i] = "assert"

\* a step in which an inject() call made after terminate panics
LateCall == lateLog' # lateLog

C5_LateStep ==
    /\ terminate =>
          /\ terminate'
          /\ injected_jobs' = injected_jobs
          /\ handed' = handed
          /\ \A j \in Jobs :
                (~Created(j) /\ Created(j)' /\ parent'[j] = NoJob) =>
                    (LateCall /\ j \in late')
    /\ LateCall =>
          /\ terminate /\ poisoned'
          /\ lateLog' = Append(lateLog, IF poisoned THEN "lock" ELSE "assert")
          /\ injected_jobs' = injected_jobs
          /\ notifying' = notifying
          /\ pc' = pc

\* C5 amended: terminate is never reset; once it is set injected_jobs never
\* changes and no job is handed out; every inject() call made after terminate
\* panics, the first at its assertion, which poisons the mutex, and every
\* further one at lock().unwrap(); none of them appends a job or notifies,
\* with an empty slice too, and a job passed to such a call is never queued,
\* handed out or executed.
C5_InjectAfterTerminate ==
    /\ [](\A j \in late : /\ poisoned
                          /\ j \notin Range(injected_jobs)
                          /\ execLog[j] = <<>>
                          /\ handed[j] = <<>>)
    /\ [](/\ poisoned <=> lateLog # <<>>
          /\ poisoned => terminate
          /\ late # {} => lateLog # <<>>
          /\ \A i \in 1 .. Len(lateLog) :
                lateLog[i] = IF i = 1 THEN "assert" ELSE "lock")
    /\ [][C5_LateStep]_vars

\* C5 witness: inject was called twice after terminate, once with an empty
\* slice and once with a slice of one job.
C5_Witness ==
    /\ terminate /\ poisoned
    /\ Len(lateLog) = 2
    /\ Cardinality(late) = 1

\* C7: on every worker, in every state (inside push and pop included),
\* spawn_count >= 0 and spawn_count >= the depth of the worker's own deque.
C7_SpawnCountBound ==
    \A w \in Workers :
        /\ spawn_count[w] >= 0
        /\ spawn_count[w] >= Len(deque[w])

\* C7 witness: a worker is inside pop, between the deque pop and the update
\* of the spawn count, after a thief has stolen from its deque.
C7_Witness ==
    \E w \in Workers :
        /\ mo[w].k = "popped"
        /\ spawn_count[w] >= Len(deque[w]) + 2
        /\ \E j \in Jobs : /\ parent[j] # NoJob
                           /\ execLog[j] # <<>>
                           /\ execLog[j][1][1] # w

Returned(w) == stack[w] # <<>> /\ Top(stack[w]).ph = "tail"

\* C8: when pop_spawned_jobs(N) has returned on worker W, spawn_count <= N or
\* W's deque is empty.
C8_BalancedAfterPopSpawned ==
    \A w \in Workers :
        Returned(w) =>
            \/ spawn_count[w] <= Top(stack[w]).N
            \/ deque[w] = <<>>

\* C8 witness: pop_spawned_jobs has returned after executing a child that
\* itself pushed a job onto the deque of the same worker.
C8_Witness ==
    \E w \in Workers :
        /\ Returned(w)
        /\ \E c \in Children(Top(stack[w]).job) :
              /\ execLog[c] = << <<w, "Execute">> >>
              /\ Children(c) # {}

\* The fan-out / fan-in case: the body on top of W's stack pushed k >= 1
\* leaf jobs and its pop_spawned_jobs(N) has returned.
FanIn(w) ==
    /\ Returned(w)
    /\ Children(Top(stack[w]).job) # {}
    /\ \A c \in Children(Top(stack[w]).job) : kind[c] = "leaf"

\* C9 as claimed: at the return all k jobs have completed, spawn_count = N
\* and the worker's deque is empty.
C9_FanInComplete ==
    \A w \in Workers :
        FanIn(w) =>
            /\ \A c \in Children(Top(stack[w]).job) : done[c]
            /\ spawn_count[w] = Top(stack[w]).N
            /\ deque[w] = <<>>

\* C9 amended: at the return none of the k jobs is left in the worker's
\* deque, each of them has completed or is held by the sibling that stole it,
\* and spawn_count <= N; if the worker executed all k itself, all have
\* completed and spawn_count = N.
C9_FanInAmended ==
    \A w \in Workers :
        FanIn(w) =>
            LET kids == Children(Top(stack[w]).job) IN
            /\ \A c \in kids :
                  /\ c \notin Range(deque[w])
                  /\ done[c] \/ \E v \in Workers \ {w} : Holds(v, c)
            /\ spawn_count[w] <= Top(stack[w]).N
            /\ (\A c \in kids : execLog[c] = << <<w, "Execute">> >>) =>
                  /\ \A c \in kids : done[c]
                  /\ spawn_count[w] = Top(stack[w]).N

\* C9 witness: of two leaf jobs pushed by the body, one was executed by the
\* worker itself and one by a sibling thief.
C9_Witness ==
    \E w \in Workers :
        /\ FanIn(w)
        /\ \E c, d \in Children(Top(stack[w]).job) :
              /\ execLog[c] = << <<w, "Execute">> >>
              /\ execLog[d] # <<>> /\ execLog[d][1][1] # w

ExecutedOnce(j) == Len(execLog[j]) = 1 /\ Modes(j) = {"Execute"}
OnlyInjectedLeaves ==
    \A j \in Jobs : Created(j) => (kind[j] = "leaf" /\ parent[j] = NoJob)

\* C2: under fair scheduling of the workers, unless terminate is called,
\* eventually and from then on injected_jobs is empty and every injected job
\* has been executed once; when the jobs are k injected counter increments,
\* the counter then equals k.
C2_NoLostWakeups ==
    <>[](\/ terminate
         \/ /\ injected_jobs = <<>>
            /\ \A j \in Jobs : WasInjected(j) => ExecutedOnce(j)
            /\ OnlyInjectedLeaves => counter = njobs)

\* C2 witness: all jobs of the run were injected counter increments, all
\* were executed, and every worker is blocked on the condition variable again.
C2_Witness ==
    /\ ~terminate
    /\ njobs = budget
    /\ OnlyInjectedLeaves
    /\ counter = njobs
    /\ nthreads = 2
    /\ \A w \in Workers : w < nthreads => pc[w] = "blocked"

\* C6: under fair scheduling, once terminate is set every worker eventually
\* leaves its main loop; a worker leaves it only from wait_for_work, with
\* terminate set.
C6_ExitStep ==
    \A w \in Workers :
        (pc[w] # "done" /\ pc'[w] = "done") =>
            (terminate /\ pc[w] \in {"wait", "woken"})

C6_WorkersExit ==
    /\ terminate ~> AllExited
    /\ [][C6_ExitStep]_vars

\* C6 witness: both workers of a pool that executed jobs have left the loop.
C6_Witness ==
    /\ terminate
    /\ AllExited
    /\ nthreads = 2
    /\ counter > 0

\* C10: wait_until_primed has returned only if every primed latch is set;
\* each latch is set at most once, by its own worker; a worker that is primed
\* has installed its thread-local pointer, and a worker is primed before it
\* first calls wait_for_work.
C10_Primed ==
    /\ wup = nthreads => \A w \in Workers : w < nthreads => (primed[w] /\ tls[w])
    /\ \A w \in Workers :
          /\ Len(primeLog[w]) <= 1
          /\ primed[w] <=> primeLog[w] = <<w>>
          /\ primed[w] => tls[w]
          /\ primed[w] <=> pc[w] \notin {"absent", "start", "prime"}

\* C10 witness: wait_until_primed has returned on a pool of two workers and
\* a worker is executing an injected job.
C10_Witness ==
    /\ wup = nthreads
    /\ nthreads = 2
    /\ \E w \in Workers : pc[w] = "got_job"

----------------------------------------------------------------------------
(* The entry points                                                        *)

Returns(c) == Range(client[c].ret)

C11_InitStep ==
    /\ \A c \in Clients :
          (client[c].at = "new" /\ client'[c].at = "store") =>
              /\ registries = <<>>
              /\ Len(registries') = 1
              /\ client[c].cfg # NoConfig => nthreads' = client[c].cfg
    /\ registries # <<>> => (registries' = registries /\ nthreads' = nthreads)
    /\ the_registry # NoRegistry => the_registry' = the_registry

\* C11: under every interleaving of get_registry and
\* get_registry_with_config calls, Registry::new is called at most once, by
\* the first call, with that call's configuration; no call panics on an empty
\* THE_REGISTRY, every call returns the one registry, and no later call
\* changes the registry or its size.
C11_OneShotRegistry ==
    /\ [](/\ Len(registries) <= 1
          /\ \A c \in Clients : /\ client[c].at # "panicked"
                                 /\ Returns(c) \subseteq {1}
          /\ once = "complete" => (the_registry = 1 /\ Len(registries) = 1)
          /\ registries # <<>> => nthreads = registries[1])
    /\ [][C11_InitStep]_vars

\* C11 witness: two calls with different configurations have both returned
\* the registry that was sized by one of them.
C11_Witness ==
    \E c, d \in Clients :
        /\ client[c].at = "idle" /\ client[d].at = "idle"
        /\ client[c].ret = <<1>> /\ client[d].ret = <<1>>
        /\ client[c].cfg # NoConfig /\ client[d].cfg # NoConfig
        /\ client[c].cfg # client[d].cfg
        /\ nthreads = client[c].cfg

InWorkerJob(j) == Created(j) /\ owner[j] # NoClient

C12_InWorkerStep ==
    /\ \A c \in Clients :
          /\ (client[c].at = "inject" /\ client'[c].at # "inject") =>
                 /\ client'[c].at = "notify"
                 /\ injected_jobs' = Append(injected_jobs, client[c].job)
          /\ (client[c].at = "latch" /\ client'[c].at # "latch") =>
                 /\ done[client[c].job]
                 /\ Len(opRuns[client[c].job]) = 1
    /\ opRuns' # opRuns => (injected_jobs' = injected_jobs /\ njobs' = njobs)

\* C12: in_worker called on a worker runs op on that worker and injects
\* nothing; in_worker called on an external thread injects exactly one job,
\* op is run at most once, by the worker that executes that job, the caller
\* leaves the latch only after op has run and completed, and under fair
\* scheduling the caller eventually returns.
C12_InWorker ==
    /\ [](/\ \A w \in Workers : pc[w] # "cold"
          /\ \A j \in Jobs : InWorkerJob(j) =>
                /\ Len(opRuns[j]) <= 1
                /\ Len(handed[j]) <= 1
                /\ Cardinality(Positions(j)) <= 1
                /\ \A i \in 1 .. Len(opRuns[j]) :
                      /\ opRuns[j][i] \in Workers
                      /\ opRuns[j][i] < nthreads
                      /\ execLog[j] = << <<opRuns[j][i], "Execute">> >>
                /\ done[j] => Len(opRuns[j]) = 1)
    /\ [][C12_InWorkerStep]_vars
    /\ <>[](\A c \in Clients : ~client[c].inw)

\* C12 witness: an in_worker call has returned after its op, which pushed a
\* job, ran on a worker.
C12_Witness ==
    \E c \in Clients : \E j \in Jobs :
        /\ owner[j] = c
        /\ client[c].at = "idle" /\ client[c].calls > 0
        /\ done[j] /\ opRuns[j] # <<>>
        /\ Children(j) # {}

----------------------------------------------------------------------------
(* steal_until                                                             *)

SuOn(w, j) ==
    \E i \in 1 .. Len(stack[w]) :
        stack[w][i].job = j /\ stack[w][i].ph \in SuPhases
InSomeSu(w) == \E j \in Jobs : SuOn(w, j)
Ran(w, j) == execLog'[j] = Append(execLog[j], <<w, "Execute">>)
\* pop_or_steal_and_execute on w holds job j and is about to execute it
SuHolds(w, j) ==
    stack[w] # <<>> /\ Top(stack[w]).ph = "su_exec" /\ Top(stack[w]).child = j
\* the same of the state a step leads to
SuHoldsNext(w, j) ==
    /\ stack'[w] # <<>>
    /\ Top(stack'[w]).ph = "su_exec"
    /\ Top(stack'[w]).child = j

C13_SuStep ==
    \A w \in Workers :
        /\ (InSu(w) /\ Len(stack'[w]) < Len(stack[w])) =>
               latch[Top(stack[w]).job]
        /\ InSomeSu(w) => threads_at_work' = threads_at_work \/ pc'[w] = pc[w]
        /\ (InSu(w) /\ Top(stack[w]).ph = "su" /\ stack'[w] # stack[w]
                    /\ Len(stack'[w]) = Len(stack[w])) =>
               /\ ~latch[Top(stack[w]).job]
               /\ Top(stack'[w]).ph = "su_loop"
        /\ (InSu(w) /\ mo[w].k = "popped" /\ mo[w].res # NoJob
                    /\ mo'[w] # mo[w]) =>
               SuHoldsNext(w, mo[w].res)
        /\ (InSu(w) /\ mo[w].k = "sweep" /\ mo'[w] # mo[w]
                    /\ deque'[Head(mo[w].vs)] # deque[Head(mo[w].vs)]) =>
               SuHoldsNext(w, Head(deque[Head(mo[w].vs)]))
        /\ \A j \in Jobs :
              (SuHolds(w, j) /\ stack'[w] # stack[w]) => Ran(w, j)

\* C13: steal_until returns only when its latch is set; a worker inside
\* steal_until is never in wait_for_work or start_working (it takes no
\* registry lock, does not wait on the condition variable and does not
\* change threads_at_work), enters the loop body only after it read the
\* latch unset, and executes every job its pop_or_steal yields;
\* under fair scheduling no steal_until whose latch is set stays unreturned:
\* eventually and from then on no worker is inside one.
C13_StealUntil ==
    /\ [](\A w \in Workers :
             InSomeSu(w) => pc[w] \in {"exec_inj", "exec_drain"})
    /\ [][C13_SuStep]_vars
    /\ <>[](\A w \in Workers : \A j \in Jobs : SuOn(w, j) => ~latch[j])

\* C13 witness: a worker is sweeping inside steal_until, its latch unset,
\* while a sibling holds the job it waits for.
C13_Witness ==
    \E w \in Workers :
        /\ InSu(w)
        /\ ~latch[Top(stack[w]).job]
        /\ mo[w].k = "sweep"
        /\ \E v \in Workers \ {w} : cur[v] \in Children(Top(stack[w]).job)

----------------------------------------------------------------------------
(* threads_at_work                                                         *)

\* C14: in every reachable state 0 <= threads_at_work <= thread_infos.len().
C14_ThreadsAtWorkBound ==
    /\ 0 <= threads_at_work
    /\ threads_at_work <= nthreads

Asleep(w) == pc[w] \in {"blocked", "woken"}
JobsLeft == injected_jobs # <<>> \/ \E w \in Workers : deque[w] # <<>>

\* C15: under fair scheduling, unless terminate is called or a job stays in
\* a deque, eventually and from then on threads_at_work is 0 and every
\* worker waits on the condition variable.
C15_SleepWhenQuiescent ==
    <>[](\/ terminate
         \/ JobsLeft
         \/ /\ threads_at_work = 0
            /\ \A w \in Workers : w < nthreads => Asleep(w))

----------------------------------------------------------------------------
(* wait_for_work                                                           *)

\* worker w completes a pass of wait_for_work's loop in this step
WfwStep(w) == pc[w] \in {"wait", "woken"} /\ pc'[w] # pc[w]

C16_Order ==
    \A q \in {<<>>, <<1>>, <<2, 1>>} : \A t \in 0 .. 2 :
        /\ WaitDecision(TRUE, q, t) = "Terminate"
        /\ q # <<>> => WaitDecision(FALSE, q, t) = "Job"
        /\ t > 0 => WaitDecision(FALSE, <<>>, t) = "None"
        /\ WaitDecision(FALSE, <<>>, 0) = "Wait"

C16_DecisionStep ==
    \A w \in Workers :
        WfwStep(w) =>
            LET taw == IF pc[w] = "wait" /\ was_active[w]
                       THEN threads_at_work - 1
                       ELSE threads_at_work
            IN
            /\ terminate =>
                   /\ pc'[w] = "done"
                   /\ injected_jobs' = injected_jobs
                   /\ threads_at_work' = taw
            /\ (~terminate /\ injected_jobs # <<>>) =>
                   /\ pc'[w] = "got_job"
                   /\ cur'[w] = Head(injected_jobs)
                   /\ injected_jobs' = Tail(injected_jobs)
                   /\ threads_at_work' = taw + 1
            /\ (~terminate /\ injected_jobs = <<>> /\ taw > 0) =>
                   /\ pc'[w] = "drain"
                   /\ injected_jobs' = injected_jobs
                   /\ threads_at_work' = taw
            /\ (~terminate /\ injected_jobs = <<>> /\ taw = 0) =>
                   /\ pc'[w] = "blocked"
                   /\ injected_jobs' = injected_jobs
                   /\ threads_at_work' = taw

\* C16: every pass of wait_for_work's loop, on entry (after the decrement
\* for was_active) and after every wakeup (without a decrement), returns
\* Terminate if terminate is set, else removes and returns the front of
\* injected_jobs and increments threads_at_work, else returns None if
\* threads_at_work > 0, else waits on the condition variable.
C16_WaitForWorkOrder ==
    /\ []C16_Order
    /\ [][C16_DecisionStep]_vars

\* C16 witness: wait_for_work has handed the front job of a longer queue to
\* a worker while the other worker is at work.
C16_Witness ==
    \E w \in Workers :
        /\ pc[w] = "got_job"
        /\ injected_jobs # <<>>
        /\ cur[w] < Head(injected_jobs)
        /\ threads_at_work >= 2

----------------------------------------------------------------------------
(* pop_or_steal                                                            *)

\* the siblings of w in the order [r..N) ++ [0..r)
OrderOf(st, r) == [i \in 1 .. Len(st) |-> st[((r + i - 1) % Len(st)) + 1]]
Order(w, r) == OrderOf(Stealers(w), r)
Orders(w) == {Order(w, r) : r \in 0 .. (Len(Stealers(w)) - 1)}
Suffixes(s) == {SubSeq(s, i, Len(s)) : i \in 1 .. Len(s)}

\* pop_or_steal on w hands job j to its caller in this step
Got(w, j) ==
    IF InSu(w) THEN SuHoldsNext(w, j) ELSE pc'[w] = "sw" /\ cur'[w] = j
\* pop_or_steal on w returns None in this step
GotNone(w) ==
    /\ mo'[w] = Idle
    /\ deque' = deque
    /\ execLog' = execLog
    /\ \/ InSu(w) /\ Top(stack'[w]).ph = "su"
       \/ pc'[w] = "wait" /\ cur'[w] = NoJob

\* the sweep plan of every worker of every pool size: with siblings, exactly
\* the rotations of the list of all other workers; without, no sweep at all.
\* The plan does not depend on the state of the pool; it is evaluated in the
\* states before the first job.
C17_Plan ==
    \A n \in 1 .. Cardinality(Workers) : \A w \in 0 .. (n - 1) :
        LET st == StealersOf(n, w) IN
        /\ Len(st) = n - 1
        /\ Range(st) = (0 .. (n - 1)) \ {w}
        /\ SweepOrders(st) = {OrderOf(st, r) : r \in 0 .. (Len(st) - 1)}
        /\ (SweepOrders(st) = {}) <=> (n = 1)

C17_SweepStep ==
    \A w \in Workers :
        /\ (mo[w].k = "popped" /\ ~InPsj(w) /\ mo'[w] # mo[w]) =>
               IF mo[w].res # NoJob
               THEN mo'[w] = Idle /\ deque' = deque /\ Got(w, mo[w].res)
               ELSE IF Stealers(w) = <<>>
                    THEN GotNone(w)
                    ELSE /\ mo'[w].k = "sweep"
                         /\ mo'[w].vs \in Orders(w)
                         /\ deque' = deque
        /\ (mo[w].k = "idle" /\ mo'[w].k = "popped") =>
               /\ spawn_count[w] > 0
               /\ \A u \in Workers \ {w} : deque'[u] = deque[u]
        /\ (mo[w].k = "idle" /\ mo'[w].k = "sweep") =>
               /\ spawn_count[w] = 0
               /\ Stealers(w) # <<>>
               /\ mo'[w].vs \in Orders(w)
               /\ deque' = deque
        /\ (WantsPopOrSteal(w) /\ mo[w].k = "idle" /\ mo'[w].k = "idle"
                    /\ (pc'[w] # pc[w] \/ stack'[w] # stack[w])) =>
               /\ spawn_count[w] = 0
               /\ Stealers(w) = <<>>
               /\ GotNone(w)
        /\ (mo[w].k = "sweep" /\ mo'[w] # mo[w]) =>
               LET v == Head(mo[w].vs) IN
               /\ \A u \in Workers \ {v} : deque'[u] = deque[u]
               /\ \/ /\ deque[v] # <<>>
                     /\ deque'[v] = Tail(deque[v])
                     /\ mo'[w] = Idle
                     /\ Got(w, Head(deque[v]))
                  \/ /\ Len(mo[w].vs) > 1
                     /\ deque' = deque
                     /\ mo'[w].k = "sweep"
                     /\ mo'[w].vs = Tail(mo[w].vs)
                  \/ /\ Len(mo[w].vs) = 1
                     /\ GotNone(w)

\* C17: pop_or_steal returns the job of the local pop if there is one and
\* steals only otherwise; a sweep visits the siblings in the order
\* [r..N) ++ [0..r), each at most once and never the worker itself, stops at
\* the first Data, goes on after Empty and Abort, and returns None only
\* after the last sibling gave no Data, or, without a steal, when there are
\* no siblings.
C17_PopOrSteal ==
    /\ [](njobs = 0 => C17_Plan)
    /\ [](\A w \in Workers :
             /\ w < nthreads =>
                    /\ Len(Stealers(w)) = nthreads - 1
                    /\ Range(Stealers(w)) = (0 .. (nthreads - 1)) \ {w}
             /\ mo[w].k = "sweep" =>
                    /\ mo[w].vs # <<>>
                    /\ w \notin Range(mo[w].vs)
                    /\ \E o \in Orders(w) : mo[w].vs \in Suffixes(o))
    /\ [][C17_SweepStep]_vars

\* C17 witness: in the pool of four, worker 3 started its sweep at its
\* second sibling, found no Data there nor at the third, and has wrapped
\* around to its first sibling, while worker 1 is about to sweep its
\* siblings in the order that starts at the last of them.
C17_Witness ==
    /\ nthreads = 4
    /\ mo[3].k = "sweep"
    /\ mo[3].vs = <<0>>
    /\ mo[1].k = "sweep"
    /\ mo[1].vs = <<3, 0, 2>>

----------------------------------------------------------------------------
(* threads_at_work and the condition variable                              *)

\* C18: a worker that waits on work_available has an empty deque.
C18_EmptyDequeWhenWaiting ==
    \A w \in Workers : pc[w] = "blocked" => deque[w] = <<>>

\* worker w executes a job it obtained in its main loop
AtWork(w) == pc[w] \in {"got_job", "exec_inj", "run", "exec_drain"}

\* C19: while some worker executes a job it obtained in its main loop,
\* threads_at_work >= 1 and no worker waits on the condition variable; no
\* pass of wait_for_work ends in the wait while another worker executes.
C19_BlockStep ==
    \A w \in Workers :
        (pc[w] # "blocked" /\ pc'[w] = "blocked") =>
            /\ threads_at_work' = 0
            /\ \A v \in Workers : ~AtWork(v)

C19_SpinUpWhileAtWork ==
    /\ []((\E v \in Workers : AtWork(v)) =>
             /\ threads_at_work >= 1
             /\ \A w \in Workers : pc[w] # "blocked")
    /\ [][C19_BlockStep]_vars

\* C19 witness: one worker executes an injected job while the other got
\* None from wait_for_work and sweeps the deques.
C19_Witness ==
    \E v, w \in Workers :
        /\ pc[v] = "exec_inj"
        /\ pc[w] = "drain"
        /\ mo[w].k = "sweep"
        /\ ~was_active[w]
        /\ threads_at_work = 1

\* worker w has incremented threads_at_work since its last decrement
Owes(w) ==
    \/ AtWork(w)
    \/ pc[w] = "sw_notify"
    \/ was_active[w] /\ pc[w] \in {"wait", "drain", "sw"}

\* C20: threads_at_work never goes below 0; it is at least the number of
\* workers with an unmatched increment, and so at least 1 whenever a worker
\* enters wait_for_work with was_active = true.
C20_NoUnderflow ==
    /\ threads_at_work >= 0
    /\ threads_at_work >= Cardinality({w \in Workers : Owes(w)})
    /\ \A w \in Workers :
          (pc[w] = "wait" /\ was_active[w]) =>
              /\ Owes(w)
              /\ threads_at_work >= 1
              /\ AfterDecrement(threads_at_work, was_active[w]) >= 0

\* C20 witness: a worker is about to decrement a count of exactly 1 while
\* its sibling, which owes no decrement, probes the deques.
C20_Witness ==
    \E v, w \in Workers :
        /\ pc[w] = "wait" /\ was_active[w]
        /\ threads_at_work = 1
        /\ pc[v] = "drain" /\ ~was_active[v]
====
